---- MODULE Spec2Model ----
(***************************************************************************)
(* Model of tastypie/authorization.py: the Authorization base class, the   *)
(* ReadOnlyAuthorization and DjangoAuthorization policies and the          *)
(* IntersectionAuthorization / UnionAuthorization composites.              *)
(*                                                                         *)
(* Python values are represented as follows.                               *)
(*   True / False            the strings "True" / "False"                  *)
(*   an HttpResponse object  the strings "Resp1", "Resp2" (two distinct    *)
(*                           response objects; objects are truthy)         *)
(*   a raised exception      the strings "AttributeError", "IndexError"    *)
(*   an object_list          a set of items (the code combines the         *)
(*                           children's results with & and |)              *)
(***************************************************************************)
EXTENDS Integers, Sequences, FiniteSets

VARIABLES
    resource_meta,  \* the attribute self.resource_meta of the policy attached to the resources
    pc,             \* per request thread: "idle", or "got" once it has fetched the policy
    mine,           \* per request thread: the ResourceOptions it fetched the policy through
    policy,         \* the policy object under evaluation
    call            \* record of the last completed is_authorized / apply_limits call

vars == <<resource_meta, pc, mine, policy, call>>

---------------------------------------------------------------------------
(* Bounds *)

NumThreads == 2
MaxBackends == 2
MaxItem == 4

Threads == 1..NumThreads
Items == 1..MaxItem

---------------------------------------------------------------------------
(* Requests *)

Methods == {"GET", "HEAD", "OPTIONS", "POST", "PUT", "PATCH", "DELETE", "TRACE"}

\* The ResourceOptions objects the policy is attached to, by the kind of
\* object_class they carry: a Django model, a class without _meta, None.
Metas == {"MetaModel", "MetaPlain", "MetaNoClass"}

\* What __get__ receives as instance: the ResourceOptions object the
\* attribute is read through.
Instances == Metas

object_class(meta) ==
    CASE meta = "MetaModel" -> "Entry"
      [] meta = "MetaPlain" -> "PlainObject"
      [] OTHER -> "None"

\* getattr(klass, '_meta', None): only the model class has one.
klass_meta(klass) ==
    IF klass = "Entry"
        THEN [present |-> TRUE, app_label |-> "blog", module_name |-> "entry"]
        ELSE [present |-> FALSE, app_label |-> "", module_name |-> ""]

\* A permission code '%s.<action>_%s' % (app_label, module_name).
PermCode(template, app_label, module_name) == <<app_label, template, module_name>>

AllPerms == {PermCode(a, "blog", "entry") : a \in {"add", "change", "delete"}}

\* request.method, hasattr(request, 'user') and the permissions request.user holds.
Requests ==
    {[method |-> m, has_user |-> TRUE, perms |-> p] : m \in Methods, p \in SUBSET AllPerms}
    \cup {[method |-> m, has_user |-> FALSE, perms |-> {}] : m \in Methods}

AnonRequests == {r \in Requests : ~r.has_user}

\* The requests apply_limits is called for: the reads of a collection.
ListRequests == {r \in AnonRequests : r.method = "GET"}

\* request.user.has_perms(perm_list): every listed permission is held.
has_perms(perms, permission_codes) ==
    \A i \in DOMAIN permission_codes : permission_codes[i] \in perms

---------------------------------------------------------------------------
(* Policy objects *)

Decisions == {"True", "False", "Resp1", "Resp2"}
Filters == {"all", "even", "gt2", "dropmin"}

Policy(kind, ret, filter, backends) ==
    [kind |-> kind, ret |-> ret, filter |-> filter, backends |-> backends]

AuthorizationObj == Policy("Authorization", "True", "all", <<>>)
ReadOnlyObj == Policy("ReadOnly", "True", "all", <<>>)
DjangoObj == Policy("Django", "True", "all", <<>>)

\* Subclasses of Authorization that override is_authorized with a fixed
\* answer (True, False or an HttpResponse) or apply_limits with a filter.
Subclasses ==
    {Policy("Subclass", r, "all", <<>>) : r \in Decisions \ {"True"}}
    \cup {Policy("Subclass", "True", f, <<>>) : f \in Filters \ {"all"}}

AtomicPolicies == {AuthorizationObj, ReadOnlyObj, DjangoObj}

\* The policies handed to a composite's constructor.
Children == {AuthorizationObj, ReadOnlyObj} \cup Subclasses

BackendSeqs == UNION {[1..n -> Children] : n \in 0..MaxBackends}

IsComposite(p) == p.kind \in {"Intersection", "Union"}

\* Python truth value: False is falsy, True and response objects are truthy.
Truthy(v) == v # "False"

IsException(v) == v \in {"AttributeError", "IndexError"}

Min(S) == CHOOSE x \in S : \A y \in S : x <= y

\* The filter an overriding apply_limits applies to its argument.
ApplyFilter(filter, object_list) ==
    CASE filter = "even" -> {x \in object_list : x % 2 = 0}
      [] filter = "gt2" -> {x \in object_list : x > 2}
      [] filter = "dropmin" -> IF object_list = {} THEN {} ELSE object_list \ {Min(object_list)}
      [] OTHER -> object_list

---------------------------------------------------------------------------
(* Atomic policies *)

Authorization_is_authorized(request) == "True"

Authorization_apply_limits(request, object_list) == object_list

\* Variant: every safe verb is let through, not only GET.
ReadOnlyAuthorization_is_authorized_safe_verbs(request) ==
    IF request.method \in {"GET", "OPTIONS", "HEAD"} THEN "True" ELSE "False"

ReadOnlyAuthorization_is_authorized(request) ==
    IF request.method = "GET" THEN "True" ELSE "False"

\* Variant: PATCH asks for the change permission only.
permission_map_patch_change(method) ==
    CASE method = "POST" -> <<"add">>
      [] method = "PUT" -> <<"change">>
      [] method = "DELETE" -> <<"delete">>
      [] method = "PATCH" -> <<"change">>
      [] OTHER -> <<>>

permission_map(method) ==
    CASE method = "POST" -> <<"add">>
      [] method = "PUT" -> <<"change">>
      [] method = "DELETE" -> <<"delete">>
      [] method = "PATCH" -> <<"add", "change", "delete">>
      [] OTHER -> <<>>

MappedMethods == {"POST", "PUT", "DELETE", "PATCH"}

\* Variant: the hasattr(request, 'user') guard is missing, so request.user
\* raises on a request without one.
DjangoAuthorization_is_authorized_no_user_guard(request, meta) ==
    IF request.method \in {"GET", "OPTIONS", "HEAD"} THEN "True"
    ELSE IF meta = "Unset" THEN "AttributeError"
    ELSE LET klass == object_class(meta)
             m == klass_meta(klass)
         IN  IF klass = "None" \/ ~m.present THEN "True"
             ELSE IF request.method \notin MappedMethods THEN "False"
             ELSE LET templates == permission_map(request.method)
                      permission_codes ==
                          [i \in DOMAIN templates |->
                              PermCode(templates[i], m.app_label, m.module_name)]
                  IN  IF ~request.has_user THEN "AttributeError"
                      ELSE IF has_perms(request.perms, permission_codes)
                          THEN "True" ELSE "False"

DjangoAuthorization_is_authorized(request, meta) ==
    IF request.method \in {"GET", "OPTIONS", "HEAD"} THEN "True"
    ELSE IF meta = "Unset" THEN "AttributeError"
    ELSE LET klass == object_class(meta)
             m == klass_meta(klass)
         IN  IF klass = "None" \/ ~m.present THEN "True"
             ELSE IF request.method \notin MappedMethods THEN "False"
             ELSE LET templates == permission_map(request.method)
                      permission_codes ==
                          [i \in DOMAIN templates |->
                              PermCode(templates[i], m.app_label, m.module_name)]
                  IN  IF ~request.has_user THEN "False"
                      ELSE IF has_perms(request.perms, permission_codes)
                          THEN "True" ELSE "False"

---------------------------------------------------------------------------
(* Dynamic dispatch and the composites *)

\* What an apply_limits call hands back: the exception it raised ("none" if
\* it returned), the value it returned, and the invocations it made of its
\* backends' apply_limits, in order.
Result(raised, value, calls) == [raised |-> raised, value |-> value, calls |-> calls]

Invocation(i, object_list) == [backend |-> i, object_list |-> object_list]

RECURSIVE is_authorized(_, _, _)
RECURSIVE apply_limits(_, _, _)
RECURSIVE IntersectionLoop(_, _, _)
RECURSIVE UnionLoop(_, _, _)
RECURSIVE IntersectionFold(_, _, _, _, _, _)
RECURSIVE UnionFold(_, _, _, _, _, _)

\* for backend in self.backends: ... if not authorized: return False
IntersectionLoop(backends, i, request) ==
    IF i > Len(backends) THEN "True"
    ELSE LET authorized == is_authorized(backends[i], request, "Unset")
         IN  IF IsException(authorized) THEN authorized
             ELSE IF ~Truthy(authorized) THEN "False"
             ELSE IntersectionLoop(backends, i + 1, request)

\* Variant: the final return True sits inside the loop, so only the first
\* backend is consulted.
IntersectionAuthorization_is_authorized_first_only(self, request) ==
    IF Len(self.backends) = 0 THEN "True"
    ELSE LET authorized == is_authorized(self.backends[1], request, "Unset")
         IN  IF IsException(authorized) THEN authorized
             ELSE IF ~Truthy(authorized) THEN "False"
             ELSE "True"

IntersectionAuthorization_is_authorized(self, request) ==
    IntersectionLoop(self.backends, 1, request)

\* for backend in self.backends: ... if authorized: return True
UnionLoop(backends, i, request) ==
    IF i > Len(backends) THEN "False"
    ELSE LET authorized == is_authorized(backends[i], request, "Unset")
         IN  IF IsException(authorized) THEN authorized
             ELSE IF Truthy(authorized) THEN "True"
             ELSE UnionLoop(backends, i + 1, request)

UnionAuthorization_is_authorized(self, request) ==
    UnionLoop(self.backends, 1, request)

\* result = result & backend.apply_limits(request, backend.apply_limits(request, object_list))
IntersectionFold(backends, i, request, object_list, result, calls) ==
    IF i > Len(backends) THEN Result("none", result, calls)
    ELSE LET inner == apply_limits(backends[i], request, object_list)
             calls1 == Append(calls, Invocation(i, object_list))
         IN  IF inner.raised # "none" THEN Result(inner.raised, {}, calls1)
             ELSE LET outer == apply_limits(backends[i], request, inner.value)
                      calls2 == Append(calls1, Invocation(i, inner.value))
                  IN  IF outer.raised # "none" THEN Result(outer.raised, {}, calls2)
                      ELSE IntersectionFold(backends, i + 1, request, object_list,
                                            result \cap outer.value, calls2)

IntersectionAuthorization_apply_limits(self, request, object_list) ==
    IF Len(self.backends) = 0 THEN Result("IndexError", {}, <<>>)
    ELSE LET first == apply_limits(self.backends[1], request, object_list)
             calls == <<Invocation(1, object_list)>>
         IN  IF first.raised # "none" THEN Result(first.raised, {}, calls)
             ELSE IntersectionFold(self.backends, 2, request, object_list,
                                   first.value, calls)

\* result = result | backend.apply_limits(request, object_list)
UnionFold(backends, i, request, object_list, result, calls) ==
    IF i > Len(backends) THEN Result("none", result, calls)
    ELSE LET next == apply_limits(backends[i], request, object_list)
             calls1 == Append(calls, Invocation(i, object_list))
         IN  IF next.raised # "none" THEN Result(next.raised, {}, calls1)
             ELSE UnionFold(backends, i + 1, request, object_list,
                            result \cup next.value, calls1)

UnionAuthorization_apply_limits(self, request, object_list) ==
    IF Len(self.backends) = 0 THEN Result("IndexError", {}, <<>>)
    ELSE LET first == apply_limits(self.backends[1], request, object_list)
             calls == <<Invocation(1, object_list)>>
         IN  IF first.raised # "none" THEN Result(first.raised, {}, calls)
             ELSE UnionFold(self.backends, 2, request, object_list, first.value, calls)

\* self.is_authorized(request, object), resolved on the class of self.  meta
\* is self.resource_meta ("Unset" for an object never fetched through a
\* ResourceOptions attribute, as the backends of a composite are).
is_authorized(self, request, meta) ==
    CASE self.kind = "ReadOnly" -> ReadOnlyAuthorization_is_authorized(request)
      [] self.kind = "Django" -> DjangoAuthorization_is_authorized(request, meta)
      [] self.kind = "Intersection" -> IntersectionAuthorization_is_authorized(self, request)
      [] self.kind = "Union" -> UnionAuthorization_is_authorized(self, request)
      [] self.kind = "Subclass" -> self.ret
      [] OTHER -> Authorization_is_authorized(request)

\* self.apply_limits(request, object_list), resolved on the class of self.
apply_limits(self, request, object_list) ==
    CASE self.kind = "Intersection" ->
            IntersectionAuthorization_apply_limits(self, request, object_list)
      [] self.kind = "Union" ->
            UnionAuthorization_apply_limits(self, request, object_list)
      [] self.kind = "Subclass" ->
            Result("none", ApplyFilter(self.filter, object_list), <<>>)
      [] OTHER ->
            Result("none", Authorization_apply_limits(request, object_list), <<>>)

---------------------------------------------------------------------------
(* State machine *)

NoRequest == [method |-> "GET", has_user |-> FALSE, perms |-> {}]

NoCall ==
    [op |-> "none", self |-> AuthorizationObj, request |-> NoRequest,
     object_list |-> {}, seen |-> "NotRead", bound |-> "Unset",
     returned |-> "n/a", limited |-> {}, calls |-> <<>>, raised |-> "none"]

\* The record of a completed is_authorized call.
AuthorizedCall(self, request, seen, bound, value) ==
    [NoCall EXCEPT !.op = "is_authorized", !.self = self, !.request = request,
                   !.seen = seen, !.bound = bound,
                   !.returned = IF IsException(value) THEN "n/a" ELSE value,
                   !.raised = IF IsException(value) THEN value ELSE "none"]

\* The record of a completed apply_limits call.
LimitsCall(self, request, object_list, bound, res) ==
    [NoCall EXCEPT !.op = "apply_limits", !.self = self, !.request = request,
                   !.object_list = object_list, !.bound = bound,
                   !.limited = res.value, !.calls = res.calls, !.raised = res.raised]

\* Whether is_authorized on self reads self.resource_meta for this request.
ReadsMeta(self, request) ==
    self.kind = "Django" /\ request.method \notin {"GET", "OPTIONS", "HEAD"}

\* A request thread reads the authorization attribute of a ResourceOptions
\* object: the descriptor stores the instance on the policy and returns it.
Authorization__get__(t, instance) ==
    /\ pc[t] = "idle"
    /\ resource_meta' = instance
    /\ mine' = [mine EXCEPT ![t] = instance]
    /\ pc' = [pc EXCEPT ![t] = "got"]
    /\ UNCHANGED <<policy, call>>

\* The thread calls is_authorized on the policy it fetched.
IsAuthorized(t, request) ==
    /\ pc[t] = "got"
    /\ call' = AuthorizedCall(policy, request,
                              IF ReadsMeta(policy, request) THEN resource_meta ELSE "NotRead",
                              mine[t],
                              is_authorized(policy, request, resource_meta))
    /\ pc' = [pc EXCEPT ![t] = "idle"]
    /\ mine' = [mine EXCEPT ![t] = "Unset"]
    /\ UNCHANGED <<resource_meta, policy>>

\* The thread calls apply_limits on the policy it fetched.
ApplyLimits(t, request, object_list) ==
    /\ pc[t] = "got"
    /\ call' = LimitsCall(policy, request, object_list, mine[t],
                          apply_limits(policy, request, object_list))
    /\ pc' = [pc EXCEPT ![t] = "idle"]
    /\ mine' = [mine EXCEPT ![t] = "Unset"]
    /\ UNCHANGED <<resource_meta, policy>>

\* One atomic policy object, attached to the resources and shared by the threads.
Init ==
    /\ resource_meta = "Unset"
    /\ pc = [t \in Threads |-> "idle"]
    /\ mine = [t \in Threads |-> "Unset"]
    /\ policy \in AtomicPolicies
    /\ call = NoCall

\* No other thread is between fetching the policy and calling it.
Alone(t) == \A u \in Threads \ {t} : pc[u] = "idle"

\* Requests handled one at a time: a thread fetches the policy and calls it
\* before the next request starts.
SerialGet(t, instance) ==
    /\ Alone(t)
    /\ Authorization__get__(t, instance)

SerialIsAuthorized(t, request) ==
    /\ Alone(t)
    /\ IsAuthorized(t, request)

SerialApplyLimits(t, request, object_list) ==
    /\ Alone(t)
    /\ ApplyLimits(t, request, object_list)

Next ==
    \/ \E t \in Threads, instance \in Instances : SerialGet(t, instance)
    \/ \E t \in Threads, request \in Requests : SerialIsAuthorized(t, request)
    \/ \E t \in Threads, request \in ListRequests, object_list \in SUBSET Items :
          SerialApplyLimits(t, request, object_list)

Spec == Init /\ [][Next]_vars

\* Requests handled concurrently: the threads' fetches and calls interleave.
NextShared ==
    \/ \E t \in Threads, instance \in Instances : Authorization__get__(t, instance)
    \/ \E t \in Threads, request \in Requests : IsAuthorized(t, request)
    \/ \E t \in Threads, request \in ListRequests, object_list \in SUBSET Items :
          ApplyLimits(t, request, object_list)

SpecShared == Init /\ [][NextShared]_vars

---------------------------------------------------------------------------
(* A composite is built once from child policies and then called directly *)

\* IntersectionAuthorization(*backends) / UnionAuthorization(*backends)
Construct(kind, backends) ==
    /\ ~IsComposite(policy)
    /\ policy' = Policy(kind, "True", "all", backends)
    /\ call' = NoCall
    /\ UNCHANGED <<resource_meta, pc, mine>>

\* a & b
Authorization__and__(a, b) ==
    /\ ~IsComposite(policy)
    /\ policy' = Policy("Intersection", "True", "all", <<a, b>>)
    /\ call' = NoCall
    /\ UNCHANGED <<resource_meta, pc, mine>>

\* a | b
Authorization__or__(a, b) ==
    /\ ~IsComposite(policy)
    /\ policy' = Policy("Union", "True", "all", <<a, b>>)
    /\ call' = NoCall
    /\ UNCHANGED <<resource_meta, pc, mine>>

CompositeIsAuthorized(request) ==
    /\ IsComposite(policy)
    /\ call' = AuthorizedCall(policy, request, "NotRead", "Unset",
                              is_authorized(policy, request, resource_meta))
    /\ UNCHANGED <<resource_meta, pc, mine, policy>>

CompositeApplyLimits(request, object_list) ==
    /\ IsComposite(policy)
    /\ call' = LimitsCall(policy, request, object_list, "Unset",
                          apply_limits(policy, request, object_list))
    /\ UNCHANGED <<resource_meta, pc, mine, policy>>

InitComposite ==
    /\ resource_meta = "Unset"
    /\ pc = [t \in Threads |-> "idle"]
    /\ mine = [t \in Threads |-> "Unset"]
    /\ policy = AuthorizationObj
    /\ call = NoCall

NextComposite ==
    \/ \E a \in Children, b \in Children : Authorization__and__(a, b)
    \/ \E a \in Children, b \in Children : Authorization__or__(a, b)
    \/ \E kind \in {"Intersection", "Union"}, backends \in BackendSeqs :
          Construct(kind, backends)
    \/ \E request \in AnonRequests : CompositeIsAuthorized(request)
    \/ \E request \in ListRequests, object_list \in SUBSET Items :
          CompositeApplyLimits(request, object_list)

SpecComposite == InitComposite /\ [][NextComposite]_vars

---------------------------------------------------------------------------
(* Properties *)

\* The decision backend i of the called composite gives for the call's request.
ChildDecision(i) == is_authorized(call.self.backends[i], call.request, "Unset")

\* What backend i of the called composite keeps of the collection C.
ChildLimits(i, C) == apply_limits(call.self.backends[i], call.request, C).value

NumChildren == Len(call.self.backends)

\* The first index whose decision lies in S, or 0 if there is none.
FirstIn(S) ==
    IF \E i \in 1..NumChildren : ChildDecision(i) \in S
        THEN CHOOSE i \in 1..NumChildren :
                /\ ChildDecision(i) \in S
                /\ \A j \in 1..(i - 1) : ChildDecision(j) \notin S
        ELSE 0

AuthorizedOn(kind) == call.op = "is_authorized" /\ call.self.kind = kind

LimitsOn(kind) == call.op = "apply_limits" /\ call.self.kind = kind

\* C1: in one apply_limits call on a composite with n >= 1 children, every
\* child's apply_limits is invoked exactly once, and always with the
\* object_list the composite was given.
C1_EachChildOnceOnOriginal ==
    (call.op = "apply_limits" /\ IsComposite(call.self) /\ NumChildren >= 1) =>
        /\ \A i \in 1..NumChildren :
              Cardinality({j \in DOMAIN call.calls : call.calls[j].backend = i}) = 1
        /\ \A j \in DOMAIN call.calls : call.calls[j].object_list = call.object_list

\* C2: a composite hands back the first deciding child result itself: for an
\* intersection the first Denied or Custom, for a union the first Allowed or
\* Custom, a Custom response being returned as that response.
C2_CustomPropagated ==
    /\ AuthorizedOn("Intersection") =>
          LET k == FirstIn(Decisions \ {"True"})
          IN  call.returned = IF k = 0 THEN "True" ELSE ChildDecision(k)
    /\ AuthorizedOn("Union") =>
          LET k == FirstIn(Decisions \ {"False"})
          IN  call.returned = IF k = 0 THEN "False" ELSE ChildDecision(k)

\* C3: an intersection of two children is Denied whenever one of them is
\* Denied (also when the other is Custom) and, when neither is Custom, it is
\* Allowed exactly when both are Allowed.
C3_IntersectionPair ==
    (AuthorizedOn("Intersection") /\ NumChildren = 2) =>
        /\ (\E i \in 1..2 : ChildDecision(i) = "False") => call.returned = "False"
        /\ (\A i \in 1..2 : ChildDecision(i) \in {"True", "False"}) =>
              (call.returned = "True" <=> \A i \in 1..2 : ChildDecision(i) = "True")

\* C3 case: a Custom child followed by a Denied child, answered Denied.
C3_Witness ==
    /\ AuthorizedOn("Intersection") /\ NumChildren = 2
    /\ ChildDecision(1) = "Resp1"
    /\ ChildDecision(2) = "False"
    /\ call.returned = "False"

\* C4: a union of two children is Allowed if and only if at least one of the
\* two children is Allowed.
C4_UnionPair ==
    (AuthorizedOn("Union") /\ NumChildren = 2) =>
        (call.returned = "True" <=> \E i \in 1..2 : ChildDecision(i) = "True")

\* C5 as stated: ReadOnlyAuthorization allows GET, HEAD and OPTIONS and denies
\* every other method.
C5_ReadOnlySafeVerbs ==
    AuthorizedOn("ReadOnly") =>
        call.returned =
            IF call.request.method \in {"GET", "HEAD", "OPTIONS"} THEN "True" ELSE "False"

\* C5 as amended: ReadOnlyAuthorization allows GET and denies every other
\* method, HEAD and OPTIONS included.
C5_ReadOnlyGetOnly ==
    AuthorizedOn("ReadOnly") =>
        call.returned = IF call.request.method = "GET" THEN "True" ELSE "False"

\* C5 case: a HEAD request was denied.
C5_Witness ==
    /\ AuthorizedOn("ReadOnly")
    /\ call.request.method = "HEAD"
    /\ call.returned = "False"

UnsafeWithoutUser ==
    /\ AuthorizedOn("Django")
    /\ ~call.request.has_user
    /\ call.request.method \notin {"GET", "HEAD", "OPTIONS"}

\* C6 as stated: a request without user and with an unsafe method is Denied
\* by DjangoAuthorization, whatever the bound metadata carries.
C6_NoUserDenied ==
    (UnsafeWithoutUser /\ call.seen \in Metas) => call.returned = "False"

\* C6 as amended: such a request is Denied when the bound metadata carries a
\* model class, and Allowed when it carries a class without model info or no
\* class at all.
C6_NoUserDeniedForModel ==
    /\ (UnsafeWithoutUser /\ call.seen = "MetaModel") => call.returned = "False"
    /\ (UnsafeWithoutUser /\ call.seen \in {"MetaPlain", "MetaNoClass"}) =>
          call.returned = "True"

\* C6 case: a POST without user against a model resource was denied.
C6_Witness ==
    /\ UnsafeWithoutUser
    /\ call.request.method = "POST"
    /\ call.seen = "MetaModel"
    /\ call.returned = "False"

\* The permission names the claim lists for a mapped verb.
RequiredActions(method) ==
    CASE method = "POST" -> {"add"}
      [] method = "PUT" -> {"change"}
      [] method = "DELETE" -> {"delete"}
      [] method = "PATCH" -> {"add", "change", "delete"}

\* C7: with a user, metadata that identifies a model and an unsafe verb,
\* DjangoAuthorization allows exactly when the verb is mapped and the user
\* holds every permission of the verb (PATCH: add, change and delete); an
\* unmapped verb is denied.
C7_DjangoPermissionMapping ==
    ( /\ AuthorizedOn("Django")
      /\ call.request.has_user
      /\ call.request.method \notin {"GET", "HEAD", "OPTIONS"}
      /\ call.seen = "MetaModel" ) =>
        call.returned =
            IF /\ call.request.method \in {"POST", "PUT", "DELETE", "PATCH"}
               /\ \A a \in RequiredActions(call.request.method) :
                     <<"blog", a, "entry">> \in call.request.perms
            THEN "True" ELSE "False"

\* C7 case: a PATCH by a user holding add and change but not delete was denied.
C7_Witness ==
    /\ AuthorizedOn("Django")
    /\ call.request.has_user
    /\ call.request.method = "PATCH"
    /\ call.request.perms = {<<"blog", "add", "entry">>, <<"blog", "change", "entry">>}
    /\ call.seen = "MetaModel"
    /\ call.returned = "False"

\* C8: a composite with zero children cannot be constructed, so none exists
\* and no call is ever evaluated on one.
C8_NoEmptyComposite ==
    /\ IsComposite(policy) => Len(policy.backends) >= 1
    /\ (call.op # "none" /\ IsComposite(call.self)) => NumChildren >= 1

\* C9: IntersectionAuthorization.apply_limits over C returns the intersection
\* of what each child, filtering C on its own, keeps.
C9_IntersectionOfOriginal ==
    (LimitsOn("Intersection") /\ NumChildren >= 1) =>
        /\ call.raised = "none"
        /\ call.limited =
              {x \in call.object_list :
                  \A i \in 1..NumChildren : x \in ChildLimits(i, call.object_list)}

\* C10: the resource_meta an evaluation reads is the one the evaluating
\* request bound when it fetched the policy.
C10_BoundMetaSeen ==
    (call.op = "is_authorized" /\ call.seen # "NotRead") => call.seen = call.bound

====
